---- MODULE Spec2Model ----
(***************************************************************************)
(* Model of the authenticated, rate-limited API access layer of            *)
(* zerodha-cli: the token-bucket RateLimiter, the KiteConnectClient of the *)
(* core crate with its auth and instrument-cache collaborators, and the    *)
(* older RateLimitedClient / KiteClient pair.                              *)
(***************************************************************************)
EXTENDS Integers, Sequences, FiniteSets, TLC

(***************************************************************************)
(* Program constants.                                                      *)
(***************************************************************************)
Capacity == 3          \* Quota::per_second(nonzero!(3u32))
PeriodMs == 1000       \* the quota's period: one second
PollMs == 100          \* tokio::time::sleep(Duration::from_millis(100))
TimeoutMs == 30000     \* Duration::from_secs(30)
MaxRetries == 3        \* RateLimitedClient::new: max_retries: 3
BackoffMs == 100       \* Duration::from_millis(100 * retries)
TokenDays == 1         \* chrono::Duration::days(1)
TtlHours == 24         \* age.num_hours() < 24

(***************************************************************************)
(* Bounds of the model.                                                    *)
(***************************************************************************)
MaxTicks == 12         \* the absolute clock is followed for this many polls
MaxGranted == 8        \* the grant counter is followed up to this value
MaxDay == 2            \* days the wall clock may advance
MaxRows == 2           \* rows of an instrument listing
HourStep == 8          \* hours by which the clock advances between commands
MaxFails == 4          \* consecutive transport failures the network may produce
MaxValueLen == 16      \* characters of a secret's value in an error body
MaxSendSteps == 5      \* thirds of the request timeout a send is followed for
MaxQuantity == 2       \* the user types quantities from -MaxQuantity to MaxQuantity

Callers == {"c1", "c2"}

VARIABLES
    debt,      \* limiter state: credit owed to the bucket, in ms * Capacity
    pc,        \* per caller: position inside RateLimiter::acquire
    elapsed,   \* per caller: start.elapsed() in ms while it waits
    now,       \* polls of 100 ms since the limiter was built (saturating)
    granted,   \* acquisitions admitted since the limiter was built (saturating)
    burst,     \* acquisitions admitted since time last advanced
    lag,       \* per caller: ms it has gone on waiting since a caller that began
               \* to wait together with it was admitted; -1 if there is none
    accessToken,  \* KiteConnectClient::access_token (Option<String>)
    config,       \* the Config value the cli holds: api.access_token, api.token_expiry
    disk,         \* config.toml as last written
    day,          \* chrono::Utc::now(), in days
    legacyDisk,   \* the older cli's config file: api.access_token
    last,         \* the operation that ran last and what it did
    files,        \* per exchange: the cache file, its lines and age in hours
    fetched,      \* the instrument request that ran last and what it returned
    cell,         \* the memory behind access_token, in two words
    guards,       \* the RwLock around it: the writer and the readers holding it
    tasks,        \* per task: position in get_/set_access_token and its local value
    report,       \* a response with an error status and the error made of it
    wire          \* the request a login or an order command built last, as sent

limiterVars == <<debt, pc, elapsed, now, granted, burst, lag>>

apiVars == <<accessToken, config, disk, day, legacyDisk, last>>

cacheVars == <<files, fetched>>

lockVars == <<cell, guards, tasks>>

vars == <<debt, pc, elapsed, now, granted, burst, lag,
          accessToken, config, disk, day, legacyDisk, last, files, fetched,
          cell, guards, tasks, report, wire>>

\* Option::None of an Option<String>; every other string is Some(string)
NoToken == "<none>"

\* the config before any login: Config::default()
NoSession == [access_token |-> NoToken, token_expiry |-> <<>>]

\* no cache file for an exchange
NoFile == [exists |-> FALSE, lines |-> <<>>, age |-> 0]

\* no instrument request has run yet
NoFetch == [op |-> "none", exchange |-> "none", force |-> FALSE, sends |-> 0,
            result |-> "none", value |-> <<>>]

Exchanges == {"NSE", "NFO"}

\* nothing has run yet
NoCall == [client |-> "none", op |-> "none", verb |-> "none", sentToken |-> NoToken,
           credits |-> 0, sends |-> 0, waits |-> <<>>, status |-> 0, result |-> "none"]

\* no login or order request has been sent
NoWire == [method |-> "none", path |-> "none", auth |-> NoToken,
           body |-> [kind |-> "none"]]

\* no response has been looked at
NoReport == [from |-> "none", status |-> 0, body |-> <<>>, kind |-> "none",
             panic |-> FALSE, text |-> <<>>]

\* tasks that call get_access_token and tasks that call set_access_token
Readers == {"r1", "r2"}

Writers == {"w1", "w2"}

\* a value of the token field laid out in memory
Words(tok) == <<tok, tok>>

Blank == <<"?", "?">>

\* RwLock::new(None), nobody inside
LockInit ==
    /\ cell = Words(NoToken)
    /\ guards = [writer |-> "none", readers |-> {}]
    /\ tasks = [t \in Readers \cup Writers |-> [pc |-> "idle", buf |-> Blank]]

Min(a, b) == IF a < b THEN a ELSE b
Max(a, b) == IF a > b THEN a ELSE b

(***************************************************************************)
(* The governor limiter (GCRA) behind RateLimiter: a bucket of Capacity    *)
(* cells refilled continuously, one cell every PeriodMs / Capacity.  debt  *)
(* is max(0, tat - now) scaled by Capacity so that it stays an integer:    *)
(* one cell costs PeriodMs, the bucket holds Capacity * PeriodMs.          *)
(***************************************************************************)
BucketSize == Capacity * PeriodMs

Credits(d) == (BucketSize - d) \div PeriodMs

\* limiter.check().is_ok(): a whole cell fits
LimiterCheck_OffByOne(d) == d <= BucketSize
LimiterCheck(d) == d + PeriodMs <= BucketSize

\* the state written by a successful check(): one cell is taken
LimiterTake_NoDecrement(d) == d
LimiterTake(d) == d + PeriodMs

\* continuous refill over ms milliseconds
Refill_Fast(d, ms) == Max(0, d - 2 * ms * Capacity)
Refill(d, ms) == Max(0, d - ms * Capacity)

(***************************************************************************)
(* RateLimiter::acquire, one caller c.  check() is a single                *)
(* compare-and-swap on the limiter state, so test and take are one step.   *)
(***************************************************************************)
\* a caller is between the first failed attempt and its return
Waiting(c) == pc[c] \in {"loop", "expire", "sleep"}

Grant(c, next) ==
    /\ debt' = LimiterTake(debt)
    /\ pc' = [pc EXCEPT ![c] = next]
    /\ granted' = Min(granted + 1, MaxGranted)
    /\ burst' = burst + 1
    /\ lag' = [d \in Callers |->
                 IF d = c THEN -1
                 ELSE IF pc[c] = "loop" /\ Waiting(d) /\ elapsed[d] = elapsed[c]
                         /\ lag[d] = -1
                 THEN 0
                 ELSE lag[d]]

\* a caller enters acquire()
AcquireStart(c) ==
    /\ pc[c] = "idle"
    /\ pc' = [pc EXCEPT ![c] = "try"]
    /\ elapsed' = [elapsed EXCEPT ![c] = 0]
    /\ UNCHANGED <<debt, now, granted, burst, lag, apiVars, cacheVars, lockVars, report, wire>>

\* line 32: the immediate attempt
AcquireTry(c) ==
    /\ pc[c] = "try"
    /\ IF LimiterCheck(debt)
       THEN /\ Grant(c, "ok")
            /\ UNCHANGED <<elapsed, now, apiVars, cacheVars, lockVars, report, wire>>
       ELSE /\ pc' = [pc EXCEPT ![c] = "loop"]
            /\ elapsed' = [elapsed EXCEPT ![c] = 0]
            /\ lag' = [lag EXCEPT ![c] = -1]
            /\ UNCHANGED <<debt, now, granted, burst, apiVars, cacheVars, lockVars, report, wire>>

\* line 42: the attempt at the head of the polling loop
AcquireLoopCheck(c) ==
    /\ pc[c] = "loop"
    /\ IF LimiterCheck(debt)
       THEN /\ Grant(c, "ok")
            /\ UNCHANGED <<elapsed, now, apiVars, cacheVars, lockVars, report, wire>>
       ELSE /\ pc' = [pc EXCEPT ![c] = "expire"]
            /\ UNCHANGED <<debt, elapsed, now, granted, burst, lag, apiVars, cacheVars, lockVars, report, wire>>

\* line 46: the bounded wait
TimedOut_Late(e) == e > 2 * TimeoutMs
TimedOut(e) == e > TimeoutMs

AcquireTimeoutCheck(c) ==
    /\ pc[c] = "expire"
    /\ pc' = [pc EXCEPT ![c] = IF TimedOut(elapsed[c]) THEN "timeout" ELSE "sleep"]
    /\ UNCHANGED <<debt, elapsed, now, granted, burst, lag, apiVars, cacheVars, lockVars, report, wire>>

\* acquire() has returned; the caller may call again
AcquireReturn(c) ==
    /\ pc[c] \in {"ok", "timeout"}
    /\ pc' = [pc EXCEPT ![c] = "idle"]
    /\ elapsed' = [elapsed EXCEPT ![c] = 0]
    /\ UNCHANGED <<debt, now, granted, burst, lag, apiVars, cacheVars, lockVars, report, wire>>

\* line 51: 100 ms pass; code between two sleeps takes no time, so the clock
\* moves only when every caller inside acquire() is asleep
Tick ==
    /\ \A c \in Callers : pc[c] \in {"idle", "sleep"}
    /\ debt' = Refill(debt, PollMs)
    /\ pc' = [c \in Callers |-> IF pc[c] = "sleep" THEN "loop" ELSE pc[c]]
    /\ elapsed' = [c \in Callers |->
                     IF pc[c] = "sleep" THEN elapsed[c] + PollMs ELSE elapsed[c]]
    /\ now' = Min(now + 1, MaxTicks)
    /\ burst' = 0
    /\ lag' = [c \in Callers |->
                 IF pc[c] = "sleep" /\ lag[c] >= 0
                 THEN Min(lag[c] + PollMs, PeriodMs + PollMs)
                 ELSE lag[c]]
    /\ UNCHANGED <<granted, apiVars, cacheVars, lockVars, report, wire>>

LimiterInit ==
    /\ debt = 0
    /\ pc = [c \in Callers |-> "idle"]
    /\ elapsed = [c \in Callers |-> 0]
    /\ now = 0
    /\ granted = 0
    /\ burst = 0
    /\ lag = [c \in Callers |-> -1]
    /\ LockInit
    /\ report = NoReport
    /\ wire = NoWire
    /\ accessToken = NoToken
    /\ config = NoSession
    /\ disk = NoSession
    /\ day = 0
    /\ legacyDisk = NoToken
    /\ last = NoCall
    /\ files = [x \in Exchanges |-> NoFile]
    /\ fetched = NoFetch

LimiterNext ==
    \/ \E c \in Callers : AcquireStart(c)
    \/ \E c \in Callers : AcquireTry(c)
    \/ \E c \in Callers : AcquireLoopCheck(c)
    \/ \E c \in Callers : AcquireTimeoutCheck(c)
    \/ \E c \in Callers : AcquireReturn(c)
    \/ Tick

SpecLimiter == LimiterInit /\ [][LimiterNext]_vars

\* every caller's steps are scheduled and time passes
FairLimiter ==
    /\ SpecLimiter
    /\ WF_vars(Tick)
    /\ \A c \in Callers :
         WF_vars(AcquireTry(c) \/ AcquireLoopCheck(c) \/ AcquireTimeoutCheck(c)
                   \/ AcquireReturn(c))

(***************************************************************************)
(* The send of one request, as time passes on an unresponsive server.      *)
(* RateLimitedClient builds its reqwest client with a timeout;             *)
(* KiteConnectClient::new builds its own without one.                      *)
(***************************************************************************)
RequestTimeoutMs == 30000     \* Client::builder().timeout(Duration::from_secs(30))

\* reqwest's per-request timeout of each client: <<>> is None
ClientTimeout(client) == IF client = "legacy" THEN <<RequestTimeoutMs>> ELSE <<>>

\* the clock is followed in thirds of the timeout, MaxSendSteps of them
SendStepMs == RequestTimeoutMs \div 3

Sending(c) == pc[c] \in {"core_send", "legacy_send"}

ClientOf(c) == IF pc[c] = "legacy_send" THEN "legacy" ELSE "core"

\* the timer of the request of caller c has fired
SendExpired(c) ==
    /\ Sending(c)
    /\ ClientTimeout(ClientOf(c)) # <<>>
    /\ elapsed[c] >= ClientTimeout(ClientOf(c))[1]

\* req.send(): the request goes out
BeginSend(c, client) ==
    /\ pc[c] = "idle"
    /\ pc' = [pc EXCEPT ![c] = IF client = "legacy" THEN "legacy_send" ELSE "core_send"]
    /\ elapsed' = [elapsed EXCEPT ![c] = 0]
    /\ UNCHANGED <<debt, now, granted, burst, lag, apiVars, cacheVars, lockVars, report, wire>>

\* the server answers
ServerResponds(c) ==
    /\ Sending(c)
    /\ pc' = [pc EXCEPT ![c] = "answered"]
    /\ UNCHANGED <<debt, elapsed, now, granted, burst, lag, apiVars, cacheVars, lockVars,
                   report, wire>>

\* reqwest gives up on the request: an error for the caller
RequestTimesOut(c) ==
    /\ SendExpired(c)
    /\ pc' = [pc EXCEPT ![c] = "timed_out"]
    /\ UNCHANGED <<debt, elapsed, now, granted, burst, lag, apiVars, cacheVars, lockVars,
                   report, wire>>

\* the call has returned to its caller
CallReturns(c) ==
    /\ pc[c] \in {"answered", "timed_out"}
    /\ pc' = [pc EXCEPT ![c] = "idle"]
    /\ elapsed' = [elapsed EXCEPT ![c] = 0]
    /\ UNCHANGED <<debt, now, granted, burst, lag, apiVars, cacheVars, lockVars, report, wire>>

\* time passes while the server stays silent; a timer that is due fires first
SendWait ==
    /\ \E c \in Callers : Sending(c)
    /\ \A c \in Callers : pc[c] \in {"idle", "core_send", "legacy_send"}
    /\ \A c \in Callers : ~SendExpired(c)
    /\ \E c \in Callers : Sending(c) /\ elapsed[c] < MaxSendSteps * SendStepMs
    /\ elapsed' = [c \in Callers |->
                     IF Sending(c)
                     THEN Min(elapsed[c] + SendStepMs, MaxSendSteps * SendStepMs)
                     ELSE elapsed[c]]
    /\ UNCHANGED <<debt, pc, now, granted, burst, lag, apiVars, cacheVars, lockVars,
                   report, wire>>

LatencyNext ==
    \/ \E c \in Callers, client \in {"core", "legacy"} : BeginSend(c, client)
    \/ \E c \in Callers : ServerResponds(c)
    \/ \E c \in Callers : RequestTimesOut(c)
    \/ \E c \in Callers : CallReturns(c)
    \/ SendWait

SpecLatency == LimiterInit /\ [][LatencyNext]_vars

(***************************************************************************)
(* The network and the file system as the clients see them.               *)
(***************************************************************************)
Statuses == {200, 304, 401, 403, 404, 429, 500}

\* tokens a session response may carry: serde accepts any string
ServerTokens == {"", "tokB"}

\* StatusCode::is_success / is_client_error / is_server_error
IsSuccess(st) == st >= 200 /\ st <= 299
IsClientError(st) == st >= 400 /\ st <= 499
IsServerError(st) == st >= 500 /\ st <= 599

\* one round of the environment: the limiter's answer, the transport's, the
\* status of the response and whether its body deserializes as expected
Envs ==
    {[lim |-> "timeout", net |-> "ok", status |-> 200, parses |-> TRUE],
     [lim |-> "ok", net |-> "fail", status |-> 200, parses |-> TRUE]}
    \cup [lim : {"ok"}, net : {"ok"}, status : Statuses, parses : {TRUE}]
    \cup {[lim |-> "ok", net |-> "ok", status |-> 200, parses |-> FALSE]}

Errors == {"NotAuthenticated", "RateLimitTimeout", "Transport", "Unauthorized",
           "Forbidden", "RateLimitExceeded", "ClientError", "ServerError",
           "Unexpected", "ParseError", "FetchFailed", "SaveFailed", "Validation",
           "ApiError", "OrderRejected", "DecodeError", "ConfigError"}

(***************************************************************************)
(* KiteConnectClient (core crate).                                         *)
(***************************************************************************)
\* handle_error: the match on the status code, first arm that fits
HandleError_RangeFirst(st) ==
    IF st >= 400 /\ st <= 499 THEN "ClientError"
    ELSE IF st >= 500 /\ st <= 599 THEN "ServerError"
    ELSE IF st = 401 THEN "Unauthorized"
    ELSE IF st = 403 THEN "Forbidden"
    ELSE IF st = 429 THEN "RateLimitExceeded"
    ELSE "Unexpected"
HandleError(st) ==
    IF st = 401 THEN "Unauthorized"
    ELSE IF st = 403 THEN "Forbidden"
    ELSE IF st = 429 THEN "RateLimitExceeded"
    ELSE IF st >= 400 /\ st <= 499 THEN "ClientError"
    ELSE IF st >= 500 /\ st <= 599 THEN "ServerError"
    ELSE "Unexpected"

\* execute: acquire a permit, send once, classify, parse
Execute_Resend(env) ==
    IF env.lim = "timeout"
    THEN [credits |-> 0, sends |-> 0, status |-> 0, result |-> "RateLimitTimeout"]
    ELSE IF env.net = "fail"
    THEN [credits |-> 1, sends |-> 1, status |-> 0, result |-> "Transport"]
    ELSE IF ~IsSuccess(env.status)
    THEN [credits |-> 1, sends |-> 2, status |-> env.status,
          result |-> HandleError(env.status)]
    ELSE [credits |-> 1, sends |-> 1, status |-> env.status,
          result |-> IF env.parses THEN "Ok" ELSE "ParseError"]
Execute(env) ==
    IF env.lim = "timeout"
    THEN [credits |-> 0, sends |-> 0, status |-> 0, result |-> "RateLimitTimeout"]
    ELSE IF env.net = "fail"
    THEN [credits |-> 1, sends |-> 1, status |-> 0, result |-> "Transport"]
    ELSE IF ~IsSuccess(env.status)
    THEN [credits |-> 1, sends |-> 1, status |-> env.status,
          result |-> HandleError(env.status)]
    ELSE [credits |-> 1, sends |-> 1, status |-> env.status,
          result |-> IF env.parses THEN "Ok" ELSE "ParseError"]

\* the endpoints that go through build_auth_request and execute
CoreEndpoints == {[op |-> "get_quotes", verb |-> "GET"],
                  [op |-> "list_orders", verb |-> "GET"],
                  [op |-> "place_order", verb |-> "POST"],
                  [op |-> "modify_order", verb |-> "PUT"],
                  [op |-> "cancel_order", verb |-> "DELETE"]}

\* get_access_token: Some(token) or the error "Not authenticated"
HasToken_NonEmpty(tok) == tok # NoToken /\ tok # ""
HasToken(tok) == tok # NoToken

Call(client, ep, tok, r, waits) ==
    [client |-> client, op |-> ep.op, verb |-> ep.verb,
     sentToken |-> IF r.sends > 0 THEN tok ELSE NoToken,
     credits |-> r.credits, sends |-> r.sends, waits |-> waits,
     status |-> r.status, result |-> r.result]

Refused(client, ep, kind) ==
    [client |-> client, op |-> ep.op, verb |-> ep.verb, sentToken |-> NoToken,
     credits |-> 0, sends |-> 0, waits |-> <<>>, status |-> 0, result |-> kind]

\* an authenticated endpoint: build_auth_request(..).await? then execute
CoreCall(ep, env) ==
    /\ last' = IF HasToken(accessToken)
               THEN Call("core", ep, accessToken, Execute(env), <<>>)
               ELSE Refused("core", ep, "NotAuthenticated")
    /\ UNCHANGED <<accessToken, config, disk, day, legacyDisk, limiterVars, cacheVars, lockVars, report, wire>>

\* list_instruments: build_auth_request, acquire, send; its own status check
ListInstrumentsResult(env) ==
    IF env.lim = "timeout"
    THEN [credits |-> 0, sends |-> 0, status |-> 0, result |-> "RateLimitTimeout"]
    ELSE IF env.net = "fail"
    THEN [credits |-> 1, sends |-> 1, status |-> 0, result |-> "Transport"]
    ELSE IF ~IsSuccess(env.status)
    THEN [credits |-> 1, sends |-> 1, status |-> env.status, result |-> "FetchFailed"]
    ELSE [credits |-> 1, sends |-> 1, status |-> env.status,
          result |-> IF env.parses THEN "Ok" ELSE "ParseError"]

CoreListInstruments(env) ==
    LET ep == [op |-> "list_instruments", verb |-> "GET"] IN
    /\ last' = IF HasToken(accessToken)
               THEN Call("core", ep, accessToken, ListInstrumentsResult(env), <<>>)
               ELSE Refused("core", ep, "NotAuthenticated")
    /\ UNCHANGED <<accessToken, config, disk, day, legacyDisk, limiterVars, cacheVars, lockVars, report, wire>>

\* DateTime::to_rfc3339 of a day, and parse_from_rfc3339 over the texts it
\* can meet
ExpiryText(d) == "D" \o ToString(d)

Days == 0..(MaxDay + TokenDays)

ParsesExpiry(t) == \E d \in Days : t = ExpiryText(d)
ParseExpiry(t) == CHOOSE d \in Days : t = ExpiryText(d)

\* Config::is_token_valid: an expiry is stored, parses and lies after now
IsTokenValid_NotStrict(cfg, today) ==
    /\ cfg.token_expiry # <<>>
    /\ ParsesExpiry(cfg.token_expiry[1])
    /\ ParseExpiry(cfg.token_expiry[1]) >= today
IsTokenValid(cfg, today) ==
    /\ cfg.token_expiry # <<>>
    /\ ParsesExpiry(cfg.token_expiry[1])
    /\ ParseExpiry(cfg.token_expiry[1]) > today

\* auth::status
Status(cfg, today) ==
    IF cfg.access_token # NoToken
    THEN IF IsTokenValid(cfg, today)
         THEN [kind |-> "Authenticated", expiry |-> cfg.token_expiry]
         ELSE [kind |-> "TokenExpired", expiry |-> <<>>]
    ELSE [kind |-> "NotAuthenticated", expiry |-> <<>>]

\* run_auth_status: prints auth::status(config)
RunAuthStatus ==
    /\ last' = Refused("core", [op |-> "status", verb |-> "none"], Status(config, day).kind)
    /\ UNCHANGED <<accessToken, config, disk, day, legacyDisk, limiterVars, cacheVars, lockVars, report, wire>>

\* login, step 5: Utc::now() + Duration::days(1)
LoginExpiry_Now(today) == today
LoginExpiry(today) == today + TokenDays

\* auth::login: read the request token, exchange_token (which stores the
\* token in the client), write token and expiry into the config, save
LoginEp == [op |-> "login", verb |-> "POST"]

\* the credentials in the config file and what the user types at the prompts
ApiKey == "key"
ApiSecret == "sec"
RequestTokens == {"", "rt"}
Totp == "123456"

\* sha256_digest: hex::encode of the SHA-256 of the input, kept symbolic: the
\* digest of a text differs from the text and from the digest of any other
Sha256Hex_Plain(text) == text
Sha256Hex(text) == "sha256(" \o text \o ")"

\* exchange_token: the request it builds with build_request, no Authorization
ExchangeRequest(rt) ==
    [method |-> "POST", path |-> "/session/token", auth |-> NoToken,
     body |-> [api_key |-> ApiKey, request_token |-> rt,
               checksum |-> Sha256Hex(ApiKey \o rt \o ApiSecret)]]

Login(rt, env, serverTok, saveOk) ==
    LET r == Execute(env) IN
    /\ wire' = IF rt # "" /\ r.sends > 0 THEN ExchangeRequest(rt) ELSE wire
    /\ IF rt = ""
       THEN /\ last' = Refused("core", LoginEp, "Validation")
            /\ UNCHANGED <<accessToken, config, disk>>
       ELSE IF r.result # "Ok"
       THEN /\ last' = Call("core", LoginEp, NoToken, r, <<>>)
            /\ UNCHANGED <<accessToken, config, disk>>
       ELSE /\ accessToken' = serverTok
            /\ config' = [access_token |-> serverTok,
                          token_expiry |-> <<ExpiryText(LoginExpiry(day))>>]
            /\ IF saveOk
               THEN /\ disk' = config'
                    /\ last' = Call("core", LoginEp, NoToken, r, <<>>)
               ELSE /\ disk' = disk
                    /\ last' = Call("core", LoginEp, NoToken,
                                    [r EXCEPT !.result = "SaveFailed"], <<>>)
    /\ UNCHANGED <<day, legacyDisk, limiterVars, cacheVars, lockVars, report>>

\* run_auth_logout / auth::logout: clear the config and save it
Logout(confirmed, saveOk) ==
    LET LogoutEp == [op |-> "logout", verb |-> "none"] IN
    /\ IF ~confirmed
       THEN /\ last' = Refused("core", LogoutEp, "Cancelled")
            /\ UNCHANGED <<config, disk>>
       ELSE /\ config' = NoSession
            /\ IF saveOk
               THEN /\ disk' = config'
                    /\ last' = Refused("core", LogoutEp, "Ok")
               ELSE /\ disk' = disk
                    /\ last' = Refused("core", LogoutEp, "SaveFailed")
    /\ UNCHANGED <<accessToken, day, legacyDisk, limiterVars, cacheVars, lockVars, report, wire>>

\* the wall clock moves on between two commands
AdvanceDay ==
    /\ day < MaxDay
    /\ day' = day + 1
    /\ last' = NoCall
    /\ UNCHANGED <<accessToken, config, disk, legacyDisk, limiterVars, cacheVars, lockVars, report, wire>>

(***************************************************************************)
(* RateLimitedClient and KiteClient (the older crate).                     *)
(***************************************************************************)
\* the loop of get / post / *_with_auth after limiter.until_ready(): fails
\* is the number of sends the transport will fail before one goes through
SendLoop_GiveUpAtOnce(fails, retries, sends, waits) ==
    IF fails = 0
    THEN [result |-> "response", sends |-> sends + 1, waits |-> waits]
    ELSE [result |-> "transport", sends |-> sends + 1, waits |-> waits]
RECURSIVE SendLoop(_, _, _, _)
SendLoop(fails, retries, sends, waits) ==
    IF fails = 0
    THEN [result |-> "response", sends |-> sends + 1, waits |-> waits]
    ELSE IF retries < MaxRetries
    THEN SendLoop(fails - 1, retries + 1, sends + 1,
                  Append(waits, BackoffMs * (retries + 1)))
    ELSE [result |-> "transport", sends |-> sends + 1, waits |-> waits]

\* endpoints of KiteClient that test the status before parsing the body
LegacyChecked == {[op |-> "get_quotes", verb |-> "GET"],
                  [op |-> "place_order", verb |-> "POST"],
                  [op |-> "modify_order", verb |-> "PUT"],
                  [op |-> "cancel_order", verb |-> "DELETE"]}

\* with them, the endpoints that parse the body whatever the status
LegacyEndpoints ==
    LegacyChecked \cup {[op |-> "get_instruments", verb |-> "GET"],
                        [op |-> "get_orders", verb |-> "GET"],
                        [op |-> "get_holdings", verb |-> "GET"]}

\* what a KiteClient method makes of a response
LegacyResult(ep, status, parses) ==
    IF ep \in LegacyChecked /\ (IsClientError(status) \/ IsServerError(status))
    THEN IF ep.op = "place_order" THEN "OrderRejected" ELSE "ApiError"
    ELSE IF parses THEN "Ok" ELSE "DecodeError"

LegacySend_GetOnly(ep, tok, fails, status, parses) ==
    LET loop == IF ep.verb = "GET" THEN SendLoop(fails, 0, 0, <<>>)
                ELSE SendLoop_GiveUpAtOnce(fails, 0, 0, <<>>) IN
    IF loop.result = "transport"
    THEN Call("legacy", ep, tok,
              [credits |-> 1, sends |-> loop.sends, status |-> 0,
               result |-> "Transport"], loop.waits)
    ELSE Call("legacy", ep, tok,
              [credits |-> 1, sends |-> loop.sends, status |-> status,
               result |-> LegacyResult(ep, status, parses)], loop.waits)
LegacySend(ep, tok, fails, status, parses) ==
    LET loop == SendLoop(fails, 0, 0, <<>>) IN
    IF loop.result = "transport"
    THEN Call("legacy", ep, tok,
              [credits |-> 1, sends |-> loop.sends, status |-> 0,
               result |-> "Transport"], loop.waits)
    ELSE Call("legacy", ep, tok,
              [credits |-> 1, sends |-> loop.sends, status |-> status,
               result |-> LegacyResult(ep, status, parses)], loop.waits)

\* a KiteClient built with the token of the config file calls an endpoint
LegacyCall(ep, fails, status, parses) ==
    /\ last' = IF HasToken(legacyDisk)
               THEN LegacySend(ep, legacyDisk, fails, status, parses)
               ELSE Refused("legacy", ep, "NotAuthenticated")
    /\ UNCHANGED <<accessToken, config, disk, day, legacyDisk, limiterVars, cacheVars, lockVars, report, wire>>

\* commands/auth.rs login: the checksum it hands to generate_session
LegacyChecksum(apiKey, rt, totp) == apiKey \o rt \o totp

\* commands/auth.rs login: generate_session, which posts the request through
\* RateLimitedClient::post, then store the token
LegacyLogin(rt, fails, status, parses, serverTok, saveOk) ==
    LET ep == [op |-> "legacy_login", verb |-> "POST"]
        loop == SendLoop(fails, 0, 0, <<>>)
        res == IF loop.result = "transport" THEN "Transport"
               ELSE IF IsClientError(status) \/ IsServerError(status) THEN "ApiError"
               ELSE IF ~parses THEN "DecodeError"
               ELSE IF ~saveOk THEN "ConfigError"
               ELSE "Ok"
    IN
    /\ last' = [Call("legacy", ep, NoToken,
                     [credits |-> 1, sends |-> loop.sends,
                      status |-> IF loop.result = "transport" THEN 0 ELSE status,
                      result |-> res], loop.waits) EXCEPT !.sentToken = NoToken]
    /\ legacyDisk' = IF res = "Ok" THEN serverTok ELSE legacyDisk
    /\ wire' = [method |-> "POST", path |-> "/session/token", auth |-> NoToken,
                body |-> [api_key |-> ApiKey, request_token |-> rt,
                          checksum |-> LegacyChecksum(ApiKey, rt, Totp)]]
    /\ UNCHANGED <<accessToken, config, disk, day, limiterVars, cacheVars, lockVars, report>>

\* commands/auth.rs logout: invalidate_token().await?, then clear and save
LegacyLogout(fails, status, saveOk) ==
    LET ep == [op |-> "legacy_logout", verb |-> "POST"]
        sent == LegacySend(ep, legacyDisk, fails, status, TRUE)
    IN
    /\ IF ~HasToken(legacyDisk)
       THEN /\ last' = Refused("legacy", ep, "ConfigError")
            /\ legacyDisk' = legacyDisk
       ELSE IF sent.result = "Transport"
       THEN /\ last' = sent
            /\ legacyDisk' = legacyDisk
       ELSE IF ~saveOk
       THEN /\ last' = [sent EXCEPT !.result = "ConfigError"]
            /\ legacyDisk' = legacyDisk
       ELSE /\ last' = [sent EXCEPT !.result = "Ok"]
            /\ legacyDisk' = NoToken
    /\ UNCHANGED <<accessToken, config, disk, day, limiterVars, cacheVars, lockVars, report, wire>>

(***************************************************************************)
(* The order commands of the cli crate.                                    *)
(***************************************************************************)
\* quantities (i32) the user may type
Quantities == (0 - MaxQuantity)..MaxQuantity

\* `q as u32` of an i32: q modulo 2^32, written as its two 16-bit halves
U32Half == 2^16
CastU32_Clamp(q) ==
    IF q >= 0 THEN <<q \div U32Half, q % U32Half>> ELSE <<0, 0>>
CastU32(q) ==
    IF q >= 0 THEN <<q \div U32Half, q % U32Half>>
    ELSE <<U32Half - 1 - ((0 - q - 1) \div U32Half),
           U32Half - 1 - ((0 - q - 1) % U32Half)>>

\* validate_order, with the trigger price the caller passes (an Option)
ValidateOrder(orderType, quantity, price, trigger) ==
    IF quantity <= 0 THEN "Validation"
    ELSE IF price <= 0 THEN "Validation"
    ELSE IF orderType \in {"SL", "SLM"} /\ trigger = <<>> THEN "Validation"
    ELSE "Ok"

PlaceOrderEp == [op |-> "place_order", verb |-> "POST", path |-> "/orders/regular"]
ModifyOrderEp == [op |-> "modify_order", verb |-> "PUT",
                  path |-> "/orders/regular/{order_id}"]
CreateGttEp == [op |-> "create_gtt", verb |-> "POST", path |-> "/gtt/triggers"]

\* place_order / modify_order / create_gtt: build_auth_request(..).json(body),
\* then execute
SendOrder(ep, quantity, env) ==
    LET r == Execute(env) IN
    IF ~HasToken(accessToken)
    THEN /\ last' = Refused("core", ep, "NotAuthenticated")
         /\ wire' = wire
    ELSE /\ last' = Call("core", ep, accessToken, r, <<>>)
         /\ wire' = IF r.sends > 0
                    THEN [method |-> ep.verb, path |-> ep.path,
                          auth |-> accessToken, body |-> [quantity |-> quantity]]
                    ELSE wire

\* run_orders_place: validate_order, build the request, dry run or confirm, send
RunOrdersPlace(orderType, q, price, dryRun, confirm, env) ==
    /\ IF ValidateOrder(orderType, q, price, <<>>) # "Ok"
       THEN /\ last' = Refused("core", PlaceOrderEp, "Validation")
            /\ wire' = wire
       ELSE IF dryRun \/ ~confirm
       THEN /\ last' = Refused("core", PlaceOrderEp, "NotSent")
            /\ wire' = wire
       ELSE SendOrder(PlaceOrderEp, CastU32(q), env)
    /\ UNCHANGED <<accessToken, config, disk, day, legacyDisk, limiterVars, cacheVars, lockVars, report>>

\* run_orders_market: build the request, dry run or confirm, send
RunOrdersMarket(q, dryRun, confirm, env) ==
    /\ IF dryRun \/ ~confirm
       THEN /\ last' = Refused("core", PlaceOrderEp, "NotSent")
            /\ wire' = wire
       ELSE SendOrder(PlaceOrderEp, CastU32(q), env)
    /\ UNCHANGED <<accessToken, config, disk, day, legacyDisk, limiterVars, cacheVars, lockVars, report>>

\* run_orders_modify: quantity.map(|q| q as u32), send
RunOrdersModify(quantity, env) ==
    /\ SendOrder(ModifyOrderEp, [i \in 1..Len(quantity) |-> CastU32(quantity[i])], env)
    /\ UNCHANGED <<accessToken, config, disk, day, legacyDisk, limiterVars, cacheVars, lockVars, report>>

\* run_gtt_create: build the request, send
RunGttCreate(q, env) ==
    /\ SendOrder(CreateGttEp, CastU32(q), env)
    /\ UNCHANGED <<accessToken, config, disk, day, legacyDisk, limiterVars, cacheVars, lockVars, report>>

\* run(): the config is loaded and its token, if any, handed to the client
ApiInit ==
    /\ disk \in {NoSession,
                 [access_token |-> "tokA", token_expiry |-> <<ExpiryText(TokenDays)>>]}
    /\ config = disk
    /\ accessToken = config.access_token
    /\ day = 0
    /\ legacyDisk \in {NoToken, "tokA"}
    /\ last = NoCall
    /\ files = [x \in Exchanges |-> NoFile]
    /\ fetched = NoFetch
    /\ debt = 0
    /\ pc = [c \in Callers |-> "idle"]
    /\ elapsed = [c \in Callers |-> 0]
    /\ now = 0
    /\ granted = 0
    /\ burst = 0
    /\ lag = [c \in Callers |-> -1]
    /\ LockInit
    /\ report = NoReport
    /\ wire = NoWire

\* the session life cycle of the core crate: calls, login, logout, time
SessionNext ==
    \/ \E ep \in CoreEndpoints, env \in Envs : CoreCall(ep, env)
    \/ \E env \in Envs : CoreListInstruments(env)
    \/ \E rt \in RequestTokens, env \in Envs, tok \in ServerTokens, ok \in BOOLEAN :
          Login(rt, env, tok, ok)
    \/ \E c \in BOOLEAN, ok \in BOOLEAN : Logout(c, ok)
    \/ RunAuthStatus
    \/ AdvanceDay

SpecSession == ApiInit /\ [][SessionNext]_vars

\* config.toml as the cli may find it: either field present or not, the
\* expiry any text
Configs == [access_token : {NoToken, "", "tokA"},
            token_expiry : {<<>>, <<"soon">>} \cup {<<ExpiryText(d)>> : d \in Days}]

StatusInit ==
    /\ disk \in Configs
    /\ config = disk
    /\ accessToken = config.access_token
    /\ day = 0
    /\ legacyDisk = NoToken
    /\ last = NoCall
    /\ files = [x \in Exchanges |-> NoFile]
    /\ fetched = NoFetch
    /\ debt = 0
    /\ pc = [c \in Callers |-> "idle"]
    /\ elapsed = [c \in Callers |-> 0]
    /\ now = 0
    /\ granted = 0
    /\ burst = 0
    /\ lag = [c \in Callers |-> -1]
    /\ LockInit
    /\ report = NoReport
    /\ wire = NoWire

StatusNext ==
    \/ RunAuthStatus
    \/ AdvanceDay

SpecStatus == StatusInit /\ [][StatusNext]_vars

\* the two transports side by side, and the older crate's login and logout
TransportNext ==
    \/ \E ep \in CoreEndpoints, env \in Envs : CoreCall(ep, env)
    \/ \E env \in Envs : CoreListInstruments(env)
    \/ \E ep \in LegacyEndpoints, f \in 0..MaxFails, st \in Statuses, p \in BOOLEAN :
          LegacyCall(ep, f, st, p)
    \/ \E f \in 0..MaxFails, st \in Statuses, p \in BOOLEAN, tok \in ServerTokens,
          ok \in BOOLEAN : LegacyLogin("rt", f, st, p, tok, ok)
    \/ \E f \in 0..MaxFails, st \in Statuses, ok \in BOOLEAN : LegacyLogout(f, st, ok)

SpecTransport == ApiInit /\ [][TransportNext]_vars

\* the rounds of the environment the commands are followed through
CommandEnvs == {e \in Envs : e.status \in {200, 400}}

\* the commands that build a request body: both logins and the order commands
CommandsNext ==
    \/ \E rt \in RequestTokens, env \in CommandEnvs, tok \in ServerTokens, ok \in BOOLEAN :
          Login(rt, env, tok, ok)
    \/ \E rt \in RequestTokens, f \in {0, MaxFails}, st \in {200, 400}, p \in BOOLEAN,
          tok \in ServerTokens, ok \in BOOLEAN : LegacyLogin(rt, f, st, p, tok, ok)
    \/ \E ot \in {"LIMIT", "SL"}, q \in Quantities, p \in {0, 10}, d \in BOOLEAN,
          c \in BOOLEAN, env \in CommandEnvs : RunOrdersPlace(ot, q, p, d, c, env)
    \/ \E q \in Quantities, d \in BOOLEAN, c \in BOOLEAN, env \in CommandEnvs :
          RunOrdersMarket(q, d, c, env)
    \/ \E q \in {<<>>} \cup {<<x>> : x \in Quantities}, env \in CommandEnvs :
          RunOrdersModify(q, env)
    \/ \E q \in Quantities, env \in CommandEnvs : RunGttCreate(q, env)

SpecCommands == ApiInit /\ [][CommandsNext]_vars

(***************************************************************************)
(* Instrument records and their CSV form.  Of the twelve columns the model *)
(* keeps one plain string and the three optional ones.  An Option is the   *)
(* empty sequence (None) or a one-element sequence (Some); an f64 is kept  *)
(* in tenths.                                                              *)
(***************************************************************************)
Header == <<"tradingsymbol", "last_price", "expiry", "strike">>

NumVals == {1000, 75}

\* the csv writer's text of an f64: shortest form that reads back, with a
\* fractional part
NumText_Truncated(v) == ToString(v \div 10)
NumText(v) == ToString(v \div 10) \o "." \o ToString(v % 10)

\* the texts str::parse::<f64> reads as v
NumTexts(v) == {NumText(v)} \cup (IF v % 10 = 0 THEN {ToString(v \div 10)} ELSE {})

IsNum(t) == \E v \in NumVals : t \in NumTexts(v)
ParseNum(t) == CHOOSE v \in NumVals : t \in NumTexts(v)

\* serde: None is written as the empty field
StrField_NoneWord(o) == IF o = <<>> THEN "None" ELSE o[1]
StrField(o) == IF o = <<>> THEN "" ELSE o[1]
NumField(o) == IF o = <<>> THEN "" ELSE NumText(o[1])

\* serde: the empty field is read as None
ReadStr(t) == IF t = "" THEN <<>> ELSE <<t>>
ReadNum(t) == IF t = "" THEN <<>> ELSE <<ParseNum(t)>>

Row(inst) == <<inst.tradingsymbol, NumField(inst.last_price),
               StrField(inst.expiry), NumField(inst.strike)>>

\* csv::Writer::serialize per record: the header goes out with the first
\* record, so an empty list leaves an empty file
Serialize(list) ==
    IF list = <<>> THEN <<>>
    ELSE <<Header>> \o [i \in 1..Len(list) |-> Row(list[i])]

RowOk(r) ==
    /\ Len(r) = Len(Header)
    /\ r[2] = "" \/ IsNum(r[2])
    /\ r[4] = "" \/ IsNum(r[4])

ReadRow(r) == [tradingsymbol |-> r[1], last_price |-> ReadNum(r[2]),
               expiry |-> ReadStr(r[3]), strike |-> ReadNum(r[4])]

\* csv::Reader::deserialize over all records: the first line is the header;
\* every record must supply and parse each field
Deserialize(lines) ==
    IF Len(lines) <= 1 THEN [ok |-> TRUE, value |-> <<>>]
    ELSE IF lines[1] # Header \/ \E i \in 2..Len(lines) : ~RowOk(lines[i])
    THEN [ok |-> FALSE, value |-> <<>>]
    ELSE [ok |-> TRUE, value |-> [i \in 1..(Len(lines) - 1) |-> ReadRow(lines[i + 1])]]

\* what the server may send as an instrument listing
RowTexts == {<<"INFY", "", "", "">>,
             <<"NIFTY", "100", "2024-12-26", "7.5">>}

BadRow == <<"BAD", "abc", "", "">>

\* a listing names each tradingsymbol once
Bodies ==
    LET Distinct(rows) == \A i, j \in 1..Len(rows) : rows[i] = rows[j] => i = j
    IN {<<>>, <<Header, BadRow>>} \cup
       {<<Header>> \o rows :
           rows \in {r \in UNION {[1..n -> RowTexts] : n \in 0..MaxRows} : Distinct(r)}}

CacheEnvs ==
    {[lim |-> "timeout", net |-> "ok", status |-> 200, body |-> <<>>],
     [lim |-> "ok", net |-> "fail", status |-> 200, body |-> <<>>]}
    \cup [lim : {"ok"}, net : {"ok"}, status : {403, 500}, body : {<<<<"{error}">>>>}]
    \cup [lim : {"ok"}, net : {"ok"}, status : {200}, body : Bodies]

\* list_instruments once the token is in hand, with the body it received
ReceiveInstruments(env) ==
    LET parsed == Deserialize(env.body)
        r == ListInstrumentsResult([lim |-> env.lim, net |-> env.net,
                                    status |-> env.status, parses |-> parsed.ok])
    IN [sends |-> r.sends, result |-> r.result,
        value |-> IF r.result = "Ok" THEN parsed.value ELSE <<>>]

(***************************************************************************)
(* InstrumentCache.                                                        *)
(***************************************************************************)
\* is_valid: the file exists and its age in whole hours is under 24
IsValid_Always(f) == f.exists
IsValid(f) == f.exists /\ f.age < TtlHours

\* load: CacheMiss without a file, else every record must parse
Load_Repairs(f) ==
    IF ~f.exists THEN [result |-> "CacheMiss", value |-> <<>>]
    ELSE [result |-> "Ok", value |-> Deserialize(f.lines).value]
Load(f) ==
    IF ~f.exists THEN [result |-> "CacheMiss", value |-> <<>>]
    ELSE LET parsed == Deserialize(f.lines) IN
         IF parsed.ok THEN [result |-> "Ok", value |-> parsed.value]
         ELSE [result |-> "ParseError", value |-> <<>>]

\* save: create_dir_all, Writer::from_path (which truncates), one serialize
\* per record, flush.  how.end says where it stops; how.written is the number
\* of lines that reached the file before a late failure
SaveOutcomes ==
    {[end |-> "ok", written |-> 0], [end |-> "fail_early", written |-> 0]}
    \cup [end : {"fail_partial"}, written : 0..MaxRows]

Save(f, list, how) ==
    IF how.end = "ok" THEN [exists |-> TRUE, lines |-> Serialize(list), age |-> 0]
    ELSE IF how.end = "fail_early" THEN f
    ELSE [exists |-> TRUE,
          lines |-> SubSeq(Serialize(list), 1, Min(how.written, Len(Serialize(list)))),
          age |-> 0]

\* what can happen to a refresh: the fetch fails, or it succeeds and the
\* save ends one way or another
RefreshCases ==
    {<<env, [end |-> "ok", written |-> 0]>> :
        env \in {e \in CacheEnvs : ~(e.lim = "ok" /\ e.net = "ok" /\ e.status = 200)}}
    \cup ({e \in CacheEnvs : e.lim = "ok" /\ e.net = "ok" /\ e.status = 200}
            \X SaveOutcomes)

\* refresh: list_instruments, then save; keeps says the file was not touched
RefreshOutcome(env, how) ==
    LET f == ReceiveInstruments(env)
        saved == f.result = "Ok" /\ how.end = "ok"
    IN [sends |-> f.sends,
        result |-> IF f.result = "Ok" /\ ~saved THEN "SaveFailed" ELSE f.result,
        value |-> IF saved THEN f.value ELSE <<>>,
        keeps |-> f.result # "Ok" \/ how.end = "fail_early",
        file |-> IF f.result = "Ok" THEN Save(NoFile, f.value, how) ELSE NoFile]

RefreshOutcomes == {RefreshOutcome(c[1], c[2]) : c \in RefreshCases}

Refresh(x, force, o) ==
    IF ~HasToken(accessToken)
    THEN /\ fetched' = [op |-> "list", exchange |-> x, force |-> force, sends |-> 0,
                        result |-> "NotAuthenticated", value |-> <<>>]
         /\ files' = files
    ELSE /\ fetched' = [op |-> "list", exchange |-> x, force |-> force,
                        sends |-> o.sends, result |-> o.result, value |-> o.value]
         /\ files' = IF o.keeps THEN files ELSE [files EXCEPT ![x] = o.file]

FromCache(x, force) ==
    /\ fetched' = [op |-> "list", exchange |-> x, force |-> force, sends |-> 0,
                   result |-> Load(files[x]).result, value |-> Load(files[x]).value]
    /\ files' = files

\* InstrumentCache::load_or_refresh
LoadOrRefresh(x, force) ==
    /\ IF force \/ ~IsValid(files[x])
       THEN \E o \in RefreshOutcomes : Refresh(x, force, o)
       ELSE FromCache(x, force)
    /\ UNCHANGED <<limiterVars, apiVars, lockVars, report, wire>>

\* run_instruments_list: the same decision written out in the command
RunInstrumentsList(x, refresh) ==
    /\ IF ~refresh /\ IsValid(files[x])
       THEN FromCache(x, refresh)
       ELSE \E o \in RefreshOutcomes : Refresh(x, refresh, o)
    /\ UNCHANGED <<limiterVars, apiVars, lockVars, report, wire>>

\* clear_all: every cache file is removed
ClearAll ==
    /\ files' = [x \in Exchanges |-> NoFile]
    /\ fetched' = [NoFetch EXCEPT !.op = "clear_all"]
    /\ UNCHANGED <<limiterVars, apiVars, lockVars, report, wire>>

\* time passes between two commands; ages of 24 hours and more are alike
AdvanceHours ==
    /\ \E x \in Exchanges : files[x].exists /\ files[x].age < TtlHours
    /\ files' = [x \in Exchanges |->
                   IF files[x].exists
                   THEN [files[x] EXCEPT !.age = Min(@ + HourStep, TtlHours)]
                   ELSE files[x]]
    /\ fetched' = [NoFetch EXCEPT !.op = "advance"]
    /\ UNCHANGED <<limiterVars, apiVars, lockVars, report, wire>>

\* what list_instruments can return to a caller that keeps no file
FetchOutcomes == {ReceiveInstruments(env) : env \in CacheEnvs}

\* get_instrument: the first record whose tradingsymbol is the one asked for
FindInstrument(list, sym) ==
    LET hits == {i \in 1..Len(list) : list[i].tradingsymbol = sym} IN
    IF hits = {} THEN <<>>
    ELSE <<list[CHOOSE i \in hits : \A j \in hits : i <= j]>>

\* run_instruments_get: get_instrument, which calls list_instruments itself
RunInstrumentsGet(x, sym, o) ==
    LET found == FindInstrument(o.value, sym) IN
    /\ fetched' = IF ~HasToken(accessToken)
                  THEN [op |-> "get", exchange |-> x, force |-> FALSE, sends |-> 0,
                        result |-> "NotAuthenticated", value |-> <<>>]
                  ELSE [op |-> "get", exchange |-> x, force |-> FALSE,
                        sends |-> o.sends,
                        result |-> IF o.result = "Ok" /\ found = <<>>
                                   THEN "NotFound" ELSE o.result,
                        value |-> found]
    /\ files' = files
    /\ UNCHANGED <<limiterVars, apiVars, lockVars, report, wire>>

\* InstrumentCache::load called on its own
CacheLoad(x) ==
    /\ fetched' = [op |-> "load", exchange |-> x, force |-> FALSE, sends |-> 0,
                   result |-> Load(files[x]).result, value |-> Load(files[x]).value]
    /\ files' = files
    /\ UNCHANGED <<limiterVars, apiVars, lockVars, report, wire>>

\* InstrumentCache::save called on its own with the list at hand
CacheSave(x, how) ==
    /\ fetched.op = "given"
    /\ files' = [files EXCEPT ![x] = Save(files[x], fetched.value, how)]
    /\ fetched' = [fetched EXCEPT !.op = "save", !.exchange = x,
                      !.result = IF how.end = "ok" THEN "Ok" ELSE "SaveFailed"]
    /\ UNCHANGED <<limiterVars, apiVars, lockVars, report, wire>>

\* a cache file whose second line is not an Instrument record
CorruptLines == <<Header, BadRow>>

\* something other than save wrote the cache file; touched says whether the
\* modification time moved with it
ForeignWrite(x, touched) ==
    /\ files[x].exists
    /\ files[x].lines # CorruptLines
    /\ files' = [files EXCEPT ![x] = [exists |-> TRUE, lines |-> CorruptLines,
                                      age |-> IF touched THEN 0 ELSE files[x].age]]
    /\ fetched' = [NoFetch EXCEPT !.op = "foreign_write"]
    /\ UNCHANGED <<limiterVars, apiVars, lockVars, report, wire>>

CacheInit ==
    /\ files = [x \in Exchanges |-> NoFile]
    /\ fetched = NoFetch
    /\ accessToken \in {NoToken, "tokA"}
    /\ config = NoSession
    /\ disk = NoSession
    /\ day = 0
    /\ legacyDisk = NoToken
    /\ last = NoCall
    /\ debt = 0
    /\ pc = [c \in Callers |-> "idle"]
    /\ elapsed = [c \in Callers |-> 0]
    /\ now = 0
    /\ granted = 0
    /\ burst = 0
    /\ lag = [c \in Callers |-> -1]
    /\ LockInit
    /\ report = NoReport
    /\ wire = NoWire

CacheNext ==
    \/ \E x \in Exchanges, force \in BOOLEAN : LoadOrRefresh(x, force)
    \/ \E x \in Exchanges, force \in BOOLEAN : RunInstrumentsList(x, force)
    \/ \E x \in Exchanges, sym \in {"INFY", "TCS"}, o \in FetchOutcomes :
          RunInstrumentsGet(x, sym, o)
    \/ \E x \in Exchanges : CacheLoad(x)
    \/ \E x \in Exchanges, touched \in BOOLEAN : ForeignWrite(x, touched)
    \/ ClearAll
    \/ AdvanceHours

SpecCache == CacheInit /\ [][CacheNext]_vars

(***************************************************************************)
(* The access_token field of KiteConnectClient: an Option<String> behind a *)
(* tokio RwLock.  A String spans more than one word, so a store or a clone *)
(* of it is more than one memory access.                                   *)
(***************************************************************************)
\* RwLock::read resolves while no writer holds the lock
CanRead(g) == g.writer = "none"

\* RwLock::write resolves while nobody holds the lock
CanWrite_IgnoresReaders(g) == g.writer = "none"
CanWrite(g) == g.writer = "none" /\ g.readers = {}

\* get_access_token: self.access_token.read().await
ReadLock(r) ==
    /\ tasks[r].pc = "idle"
    /\ CanRead(guards)
    /\ guards' = [guards EXCEPT !.readers = @ \cup {r}]
    /\ tasks' = [tasks EXCEPT ![r] = [pc |-> "held", buf |-> Blank]]
    /\ UNCHANGED <<cell, limiterVars, apiVars, cacheVars, report, wire>>

\* guard.clone(), first word
CloneFirst(r) ==
    /\ r \in Readers
    /\ tasks[r].pc = "held"
    /\ tasks' = [tasks EXCEPT ![r] = [pc |-> "cloning", buf |-> <<cell[1], "?">>]]
    /\ UNCHANGED <<cell, guards, limiterVars, apiVars, cacheVars, report, wire>>

\* guard.clone(), second word
CloneRest(r) ==
    /\ tasks[r].pc = "cloning"
    /\ tasks' = [tasks EXCEPT ![r] = [pc |-> "cloned", buf |-> <<@.buf[1], cell[2]>>]]
    /\ UNCHANGED <<cell, guards, limiterVars, apiVars, cacheVars, report, wire>>

\* the read guard is dropped and get_access_token returns the clone
ReadUnlock(r) ==
    /\ tasks[r].pc = "cloned"
    /\ guards' = [guards EXCEPT !.readers = @ \ {r}]
    /\ tasks' = [tasks EXCEPT ![r].pc = "returned"]
    /\ UNCHANGED <<cell, limiterVars, apiVars, cacheVars, report, wire>>

\* the caller goes on and may read again
ReadAgain(r) ==
    /\ tasks[r].pc = "returned"
    /\ tasks' = [tasks EXCEPT ![r] = [pc |-> "idle", buf |-> Blank]]
    /\ UNCHANGED <<cell, guards, limiterVars, apiVars, cacheVars, report, wire>>

\* set_access_token(token): self.access_token.write().await
WriteLock(w, tok) ==
    /\ w \in Writers
    /\ tasks[w].pc = "idle"
    /\ CanWrite(guards)
    /\ guards' = [guards EXCEPT !.writer = w]
    /\ tasks' = [tasks EXCEPT ![w] = [pc |-> "held", buf |-> Words(tok)]]
    /\ UNCHANGED <<cell, limiterVars, apiVars, cacheVars, report, wire>>

\* *guard = Some(token), first word
StoreFirst(w) ==
    /\ w \in Writers
    /\ tasks[w].pc = "held"
    /\ cell' = <<tasks[w].buf[1], cell[2]>>
    /\ tasks' = [tasks EXCEPT ![w].pc = "storing"]
    /\ UNCHANGED <<guards, limiterVars, apiVars, cacheVars, report, wire>>

\* *guard = Some(token), second word: the field now holds the new token
StoreRest(w) ==
    /\ tasks[w].pc = "storing"
    /\ cell' = <<cell[1], tasks[w].buf[2]>>
    /\ accessToken' = tasks[w].buf[2]
    /\ tasks' = [tasks EXCEPT ![w].pc = "stored"]
    /\ UNCHANGED <<guards, config, disk, day, legacyDisk, last, limiterVars, cacheVars, report, wire>>

\* the write guard is dropped and set_access_token returns
WriteUnlock(w) ==
    /\ tasks[w].pc = "stored"
    /\ guards' = [guards EXCEPT !.writer = "none"]
    /\ tasks' = [tasks EXCEPT ![w] = [pc |-> "idle", buf |-> Blank]]
    /\ UNCHANGED <<cell, limiterVars, apiVars, cacheVars, report, wire>>

TokenInit ==
    /\ LockInit
    /\ report = NoReport
    /\ wire = NoWire
    /\ accessToken = NoToken
    /\ config = NoSession
    /\ disk = NoSession
    /\ day = 0
    /\ legacyDisk = NoToken
    /\ last = NoCall
    /\ files = [x \in Exchanges |-> NoFile]
    /\ fetched = NoFetch
    /\ debt = 0
    /\ pc = [c \in Callers |-> "idle"]
    /\ elapsed = [c \in Callers |-> 0]
    /\ now = 0
    /\ granted = 0
    /\ burst = 0
    /\ lag = [c \in Callers |-> -1]

TokenNext ==
    \/ \E r \in Readers : ReadLock(r)
    \/ \E r \in Readers : CloneFirst(r)
    \/ \E r \in Readers : CloneRest(r)
    \/ \E r \in Readers : ReadUnlock(r)
    \/ \E r \in Readers : ReadAgain(r)
    \/ \E w \in Writers, tok \in {"tokA", "tokB"} : WriteLock(w, tok)
    \/ \E w \in Writers : StoreFirst(w)
    \/ \E w \in Writers : StoreRest(w)
    \/ \E w \in Writers : WriteUnlock(w)

SpecToken == TokenInit /\ [][TokenNext]_vars

(***************************************************************************)
(* Error bodies and redact_secrets.  A text is a sequence of characters.   *)
(***************************************************************************)
ApiSecretSpan == 20       \* replace_range(secret_pos..secret_pos + 20, ..)
AccessTokenSpan == 30     \* replace_range(token_pos..token_pos + 30, ..)

ApiSecretAnchor == <<"a", "p", "i", "_", "s", "e", "c", "r", "e", "t", "\"", ":">>

AccessTokenAnchor ==
    <<"a", "c", "c", "e", "s", "s", "_", "t", "o", "k", "e", "n", "\"", ":">>

Stars == <<"*", "*", "*">>

TokenWord == <<"t", "o", "k", "e", "n">>

\* str::find: position of the first occurrence, 0 for None
Find(pat, text) ==
    LET hits == {i \in 1..(Len(text) - Len(pat) + 1) :
                    SubSeq(text, i, i + Len(pat) - 1) = pat}
    IN IF hits = {} THEN 0 ELSE CHOOSE i \in hits : \A j \in hits : i <= j

\* str::replace: every occurrence, left to right
RECURSIVE ReplaceAll(_, _, _)
ReplaceAll(text, pat, with) ==
    LET i == Find(pat, text) IN
    IF i = 0 THEN text
    ELSE SubSeq(text, 1, i - 1) \o with
         \o ReplaceAll(SubSeq(text, i + Len(pat), Len(text)), pat, with)

\* if let Some(pos) = find(anchor) { replace_range(pos..pos + span, mask) }:
\* replace_range panics when the range runs past the end of the string
RedactStep(r, anchor, span, mask) ==
    LET pos == Find(anchor, r.text) IN
    IF r.panic \/ pos = 0 THEN r
    ELSE IF pos - 1 + span > Len(r.text) THEN [panic |-> TRUE, text |-> <<>>]
    ELSE [panic |-> FALSE,
          text |-> SubSeq(r.text, 1, pos - 1) \o mask
                   \o SubSeq(r.text, pos + span, Len(r.text))]

RedactSecrets(text) ==
    LET a == RedactStep([panic |-> FALSE, text |-> text],
                        ApiSecretAnchor, ApiSecretSpan,
                        ApiSecretAnchor \o <<"\"">> \o Stars \o <<"\"">>)
        b == RedactStep(a, AccessTokenAnchor, AccessTokenSpan,
                        AccessTokenAnchor \o <<"\"">> \o Stars \o <<"\"">>)
    IN IF b.panic THEN b
       ELSE [panic |-> FALSE,
             text |-> ReplaceAll(b.text, TokenWord, TokenWord \o <<" ">> \o Stars)]

\* error bodies: a JSON object with a secret field whose value is n
\* characters long, closed at once or followed by a message
SecretChar == "X"

SecretBody(anchor, n, rest) ==
    <<"{", "\"">> \o anchor \o <<"\"">> \o [i \in 1..n |-> SecretChar] \o <<"\"">> \o rest

SecretBodies ==
    LET message == <<",", "\"", "m", "s", "g", "\"", ":", "\"">>
                   \o [i \in 1..AccessTokenSpan |-> "."] \o <<"\"", "}">>
    IN {SecretBody(anchor, n, rest) :
           anchor \in {ApiSecretAnchor, AccessTokenAnchor},
           n \in 0..MaxValueLen,
           rest \in {<<"}">>, message}}

ErrorBodies == SecretBodies \cup {<<>>, <<"b", "a", "d", " ">> \o TokenWord}

\* every status that is not a success
ErrorStatuses == {st \in 100..599 : ~IsSuccess(st)}

\* an endpoint that goes through execute got a non-2xx response: handle_error
CoreCallFails ==
    LET red == RedactSecrets(report.body) IN
    /\ report.from = "response"
    /\ report' = [report EXCEPT
                     !.from = "core_call",
                     !.kind = IF red.panic THEN "panic" ELSE HandleError(report.status),
                     !.panic = red.panic,
                     !.text = IF red.panic \/ report.status = 429 THEN <<>> ELSE red.text]
    /\ UNCHANGED <<limiterVars, apiVars, cacheVars, lockVars, wire>>

\* list_instruments got a non-2xx response: its own anyhow! with the text
ListInstrumentsFails ==
    /\ report.from = "response"
    /\ report' = [report EXCEPT !.from = "list_instruments", !.kind = "FetchFailed",
                                 !.text = report.body]
    /\ UNCHANGED <<limiterVars, apiVars, cacheVars, lockVars, wire>>

\* KiteClient::generate_session got a 4xx or 5xx response: ApiError { message: text }
GenerateSessionFails ==
    /\ report.from = "response"
    /\ IsClientError(report.status) \/ IsServerError(report.status)
    /\ report' = [report EXCEPT !.from = "generate_session", !.kind = "ApiError",
                                 !.text = report.body]
    /\ UNCHANGED <<limiterVars, apiVars, cacheVars, lockVars, wire>>

ErrorsInit ==
    /\ report \in {[NoReport EXCEPT !.from = "response", !.status = st, !.body = b] :
                      st \in ErrorStatuses, b \in ErrorBodies}
    /\ wire = NoWire
    /\ LockInit
    /\ accessToken = "tokA"
    /\ config = NoSession
    /\ disk = NoSession
    /\ day = 0
    /\ legacyDisk = NoToken
    /\ last = NoCall
    /\ files = [x \in Exchanges |-> NoFile]
    /\ fetched = NoFetch
    /\ debt = 0
    /\ pc = [c \in Callers |-> "idle"]
    /\ elapsed = [c \in Callers |-> 0]
    /\ now = 0
    /\ granted = 0
    /\ burst = 0
    /\ lag = [c \in Callers |-> -1]

ErrorsNext ==
    \/ CoreCallFails
    \/ ListInstrumentsFails
    \/ GenerateSessionFails

SpecErrors == ErrorsInit /\ [][ErrorsNext]_vars

(***************************************************************************)
(* save and load on their own, for every list of records up to MaxRows.    *)
(***************************************************************************)
\* Instrument values: Some("") is an Option<String> like any other
Instruments == [tradingsymbol : {"INFY"}, last_price : {<<>>, <<1000>>},
                expiry : {<<>>, <<"">>, <<"2024-12-26">>}, strike : {<<>>, <<75>>}]

Lists == UNION {[1..n -> Instruments] : n \in 0..MaxRows}

RoundTripInit ==
    /\ files = [x \in Exchanges |-> NoFile]
    /\ fetched \in {[NoFetch EXCEPT !.op = "given", !.value = list] : list \in Lists}
    /\ accessToken = NoToken
    /\ config = NoSession
    /\ disk = NoSession
    /\ day = 0
    /\ legacyDisk = NoToken
    /\ last = NoCall
    /\ debt = 0
    /\ pc = [c \in Callers |-> "idle"]
    /\ elapsed = [c \in Callers |-> 0]
    /\ now = 0
    /\ granted = 0
    /\ burst = 0
    /\ lag = [c \in Callers |-> -1]
    /\ LockInit
    /\ report = NoReport
    /\ wire = NoWire

RoundTripNext ==
    \/ \E x \in Exchanges, how \in SaveOutcomes : CacheSave(x, how)
    \/ \E x \in Exchanges : CacheLoad(x)

SpecRoundTrip == RoundTripInit /\ [][RoundTripNext]_vars

(***************************************************************************)
(* C1: across every interleaving of concurrent acquire() calls the         *)
(* available credit stays within 0..Capacity, and no more than Capacity    *)
(* acquisitions are admitted without time (a refill) in between.           *)
(***************************************************************************)
C1_CreditsWithinCapacity ==
    /\ debt \in 0..BucketSize
    /\ Credits(debt) \in 0..Capacity
    /\ burst <= Capacity

\* the bucket was drained in one instant and a second caller is turned away
C1_Witness ==
    /\ burst = Capacity
    /\ Credits(debt) = 0
    /\ \E c \in Callers : pc[c] = "expire"

(***************************************************************************)
(* C5: every acquire() terminates.  It returns Ok only by taking a credit  *)
(* that was free, it fails only after polling for more than TimeoutMs with *)
(* no credit free, it never waits longer than TimeoutMs plus one poll, and *)
(* a caller that entered acquire() eventually returns.                     *)
(***************************************************************************)
C5_Step(c) ==
    /\ (pc[c] # "ok" /\ pc'[c] = "ok") =>
          /\ Credits(debt) >= 1
          /\ Credits(debt') = Credits(debt) - 1
    /\ (pc[c] # "timeout" /\ pc'[c] = "timeout") =>
          /\ elapsed[c] > TimeoutMs
          /\ Credits(debt) = 0
    /\ (pc[c] = "sleep" /\ pc'[c] = "loop") => elapsed'[c] = elapsed[c] + PollMs
    /\ elapsed'[c] <= TimeoutMs + PollMs

C5_AcquireTerminates ==
    /\ [][\A c \in Callers : C5_Step(c)]_vars
    /\ \A c \in Callers : (pc[c] = "try") ~> (pc[c] \in {"ok", "timeout"})

\* a caller gave up after the bounded wait
C5_Witness ==
    \E c \in Callers : pc[c] = "timeout" /\ elapsed[c] = TimeoutMs + PollMs

(***************************************************************************)
(* C6: from a full bucket the first Capacity acquisitions are admitted on  *)
(* the immediate attempt; a further one is admitted only once a refill     *)
(* interval PeriodMs / Capacity has passed, and in general no more than    *)
(* Capacity plus one per elapsed interval; a caller is delayed, and fails  *)
(* only when far more than Capacity + 1 acquisitions compete.              *)
(***************************************************************************)
C6_Rate ==
    /\ (now < MaxTicks /\ granted < MaxGranted) =>
          granted <= Capacity + (now * PollMs * Capacity) \div PeriodMs
    /\ \A c \in Callers : pc[c] = "timeout" => granted = MaxGranted

C6_BurstThenDelay ==
    /\ [][\A c \in Callers :
            (pc[c] = "try" /\ pc'[c] # "try" /\ granted < Capacity) => pc'[c] = "ok"]_vars
    /\ []C6_Rate

\* the fourth acquisition was admitted 400 ms after the burst of three
C6_Witness ==
    /\ granted = Capacity + 1
    /\ now = 4
    /\ \E c \in Callers : pc[c] = "ok" /\ elapsed[c] = 4 * PollMs

(***************************************************************************)
(* C2: no authenticated call proceeds without a non-empty access token:    *)
(* with the client's token absent or empty the call fails with             *)
(* NotAuthenticated, takes no limiter credit and sends nothing.            *)
(***************************************************************************)
AuthenticatedOps == {ep.op : ep \in CoreEndpoints} \cup {"list_instruments"}

C2_NoCallWithoutToken ==
    (last.client = "core" /\ last.op \in AuthenticatedOps
        /\ accessToken \in {NoToken, ""})
    => (last.result = "NotAuthenticated" /\ last.credits = 0 /\ last.sends = 0)

(***************************************************************************)
(* C3: a login that fails at any step leaves the client's token and the    *)
(* config's access_token and token_expiry as they were before the call.    *)
(***************************************************************************)
C3_FailedLoginKeepsState ==
    [][(last'.op = "login" /\ last'.result \in Errors)
         => (accessToken' = accessToken /\ config' = config)]_vars

(***************************************************************************)
(* C4: once logout has run, the locally stored access token is absent,     *)
(* whether the remote invalidation succeeded or failed.                    *)
(***************************************************************************)
C4_LogoutAlwaysClears ==
    (last.op = "legacy_logout" /\ last.sends > 0 /\ last.result # "ConfigError")
    => legacyDisk = NoToken

(***************************************************************************)
(* C7: a send that fails at transport level is retried up to MaxRetries    *)
(* times, waiting attempt * BackoffMs before each retry, and the transport *)
(* error is returned once the bound is reached.  As claimed: for every     *)
(* call of either client.                                                  *)
(***************************************************************************)
Backoffs(n) == [i \in 1..n |-> BackoffMs * i]

StatusErrors == {"Unauthorized", "Forbidden", "RateLimitExceeded", "ClientError",
                 "ServerError", "ApiError", "OrderRejected", "FetchFailed"}

C8_StatusSurfacesAsError ==
    (last.op \notin {"legacy_logout", "none"}
        /\ (IsClientError(last.status) \/ IsServerError(last.status)))
    => (last.result \in StatusErrors /\ Len(last.waits) = last.sends - 1)

(***************************************************************************)
(* C9: every send, re-sends of the retry loop included, is admitted by the *)
(* rate limiter first: a call never sends more often than it was granted   *)
(* credits.                                                                *)
(***************************************************************************)
C9_SendsWithinCredits == last.sends <= last.credits

(***************************************************************************)
(* C10: a request for an exchange without a cache file makes exactly one   *)
(* network call and persists what it returns; a request for the same       *)
(* exchange right after a fetch, without forced refresh, makes no network  *)
(* call and returns the same list.                                         *)
(***************************************************************************)
ListOps == {"list"}

C10_FirstFetch(x) ==
    (~files[x].exists /\ fetched'.op \in ListOps /\ fetched'.exchange = x
        /\ fetched'.result = "Ok")
    => /\ fetched'.sends = 1
       /\ files'[x].exists
       /\ Load(files'[x]) = [result |-> "Ok", value |-> fetched'.value]

C10_Repeat ==
    (fetched.op \in ListOps /\ fetched.result = "Ok" /\ fetched.sends = 1
        /\ fetched'.op \in ListOps /\ fetched'.exchange = fetched.exchange
        /\ ~fetched'.force)
    => /\ fetched'.sends = 0
       /\ fetched'.result = "Ok"
       /\ fetched'.value = fetched.value

C10_FetchOnceThenCached ==
    [][(\A x \in Exchanges : C10_FirstFetch(x)) /\ C10_Repeat]_vars

\* a two-row listing with optional fields absent and present came back from
\* the file just written, without a network call
C10_Witness ==
    /\ fetched.op \in ListOps
    /\ ~fetched.force
    /\ fetched.sends = 0
    /\ fetched.result = "Ok"
    /\ Len(fetched.value) = MaxRows
    /\ \E i, j \in 1..MaxRows :
         fetched.value[i].expiry = <<>> /\ fetched.value[j].strike = <<75>>
    /\ files[fetched.exchange].age = 0

(***************************************************************************)
(* C11: the instrument listing is requested over the network only when the *)
(* cache of that exchange is stale or a refresh is forced: whichever       *)
(* command needs instruments, with a cache file younger than TtlHours and  *)
(* no forced refresh it sends nothing.                                     *)
(***************************************************************************)
InstrumentOps == {"list", "get"}

C11_NetworkOnlyWhenStaleOrForced ==
    [][(fetched'.op \in InstrumentOps /\ ~fetched'.force
          /\ files[fetched'.exchange].exists
          /\ files[fetched'.exchange].age < TtlHours)
       => fetched'.sends = 0]_vars

(***************************************************************************)
(* C12: is_valid is true exactly when the cache file exists and is younger *)
(* than TtlHours, read from the file at every query: a command without     *)
(* forced refresh loads from the file in that case and fetches otherwise;  *)
(* the file is valid right after a save that succeeded, and no longer once *)
(* its age has reached TtlHours.                                           *)
(***************************************************************************)
\* results and sends that only the refresh branch produces
TookRefreshBranch(f) ==
    f.sends = 1 \/ f.result \in {"NotAuthenticated", "RateLimitTimeout"}

C12_Decision ==
    \A x \in Exchanges :
       (fetched'.op = "list" /\ fetched'.exchange = x /\ ~fetched'.force)
       => /\ TookRefreshBranch(fetched') <=> ~(files[x].exists /\ files[x].age < TtlHours)
          /\ (fetched'.sends = 1 /\ fetched'.result = "Ok") => IsValid(files'[x])

C12_IsValidFollowsFile ==
    /\ [][C12_Decision]_vars
    /\ [](\A x \in Exchanges :
            /\ ~files[x].exists => ~IsValid(files[x])
            /\ (files[x].exists /\ files[x].age >= TtlHours) => ~IsValid(files[x])
            /\ (files[x].exists /\ files[x].age < TtlHours) => IsValid(files[x]))

\* a file that was valid has aged to the limit and the next command fetched
C12_Witness ==
    /\ fetched.op = "list"
    /\ ~fetched.force
    /\ fetched.sends = 1
    /\ fetched.result = "Transport"
    /\ files[fetched.exchange].exists
    /\ files[fetched.exchange].age = TtlHours

(***************************************************************************)
(* C13: for every list of records, save followed by load of the same       *)
(* exchange returns the list that was saved: same length, same order, same *)
(* fields, optional ones included, present or absent.                      *)
(***************************************************************************)
C13_SaveLoadRoundTrip ==
    [][(fetched.op = "save" /\ fetched.result = "Ok" /\ fetched'.op = "load"
          /\ fetched'.exchange = fetched.exchange)
       => (fetched'.result = "Ok" /\ fetched'.value = fetched.value)]_vars

(***************************************************************************)
(* C14: a damaged cache is not repaired behind the caller's back.  load    *)
(* fails with CacheMiss without a file and with ParseError on a malformed  *)
(* one; with a malformed file younger than TtlHours a command without      *)
(* forced refresh returns the parse error, sends nothing and leaves the    *)
(* file as it is; a forced refresh that succeeds replaces it.              *)
(***************************************************************************)
C14_Step(x) ==
    /\ (fetched'.op = "load" /\ fetched'.exchange = x) =>
          /\ ~files[x].exists => fetched'.result = "CacheMiss"
          /\ files[x].lines = CorruptLines => fetched'.result = "ParseError"
          /\ files' = files
    /\ (fetched'.op = "list" /\ fetched'.exchange = x /\ ~fetched'.force
          /\ files[x].lines = CorruptLines /\ files[x].age < TtlHours) =>
          /\ fetched'.result = "ParseError"
          /\ fetched'.sends = 0
          /\ files' = files
    /\ (fetched'.op = "list" /\ fetched'.exchange = x /\ fetched'.force
          /\ files[x].lines = CorruptLines /\ fetched'.result = "Ok") =>
          /\ fetched'.sends = 1
          /\ Load(files'[x]) = [result |-> "Ok", value |-> fetched'.value]

C15_Login ==
    (last'.op = "login" /\ last'.result = "Ok")
    => /\ accessToken' \in ServerTokens
       /\ config'.access_token = accessToken'
       /\ disk' = config'
       /\ config'.token_expiry = <<ExpiryText(day + TokenDays)>>
       /\ ParseExpiry(config'.token_expiry[1]) > day'
       /\ Status(config', day').kind = "Authenticated"

C15_StatusAfter ==
    (last.op = "login" /\ last.result = "Ok" /\ last'.op = "status")
    => last'.result = "Authenticated"

C15_LoginStoresTokenAndExpiry == [][C15_Login /\ C15_StatusAfter]_vars

\* status ran right after a login that replaced an earlier token
C15_Witness ==
    /\ last.op = "status"
    /\ last.result = "Authenticated"
    /\ accessToken = "tokB"
    /\ disk = [access_token |-> "tokB", token_expiry |-> <<ExpiryText(day + TokenDays)>>]
    /\ day > 0

(***************************************************************************)
(* C16: status depends on the config and the clock only and sends          *)
(* nothing: NotAuthenticated exactly when no token is stored,              *)
(* Authenticated exactly when a token is stored and the expiry parses and  *)
(* lies strictly after now, TokenExpired in every other case.              *)
(***************************************************************************)
C16_Expected ==
    IF config.access_token = NoToken THEN "NotAuthenticated"
    ELSE IF \E d \in Days : config.token_expiry = <<ExpiryText(d)>> /\ d > day
    THEN "Authenticated"
    ELSE "TokenExpired"

C16_StatusIsLocal ==
    [][last'.op = "status"
         => /\ last'.result = C16_Expected
            /\ last'.sends = 0 /\ last'.credits = 0
            /\ UNCHANGED <<accessToken, config, disk, day>>]_vars

\* a stored token whose expiry is exactly now is reported as expired
C16_Witness ==
    /\ last.op = "status"
    /\ last.result = "TokenExpired"
    /\ config.access_token = "tokA"
    /\ config.token_expiry = <<ExpiryText(day)>>
    /\ day > 0

(***************************************************************************)
(* C17: a read of the access token that overlaps a write never returns a   *)
(* half-written value: what get_access_token returns is the whole token    *)
(* that was stored while it held the lock, the old one or the new one;     *)
(* readers do not keep each other out; and writes go one at a time, each   *)
(* replacing the whole value before anyone can look.                       *)
(***************************************************************************)
C17_WholeValues ==
    /\ \A r \in Readers :
          tasks[r].pc \in {"cloned", "returned"} =>
             /\ tasks[r].buf[1] = tasks[r].buf[2]
             /\ tasks[r].buf[1] \in {NoToken, "tokA", "tokB"}
    /\ \A r \in Readers : tasks[r].pc = "cloned" => tasks[r].buf = Words(accessToken)
    /\ guards.writer = "none" => cell = Words(accessToken)
    /\ guards.writer # "none" => guards.readers = {}
    /\ \A w \in Writers : tasks[w].pc # "idle" => guards.writer = w
    /\ \A r \in Readers :
          (tasks[r].pc = "idle" /\ guards.writer = "none") => ENABLED ReadLock(r)

C17_NoTornRead ==
    /\ []C17_WholeValues
    /\ [][\A r \in Readers :
            (r \in guards.readers /\ r \in guards'.readers) => cell' = cell]_vars

\* two readers hold the lock together and one has cloned the token a writer
\* stored, while the other returned the token stored before it
C17_Witness ==
    /\ \E r1, r2 \in Readers :
          /\ tasks[r1].pc = "returned" /\ tasks[r1].buf = Words("tokA")
          /\ tasks[r2].pc = "cloned" /\ tasks[r2].buf = Words("tokB")
    /\ accessToken = "tokB"

(***************************************************************************)
(* C18: whatever the endpoint, the body of a non-2xx response reaches the  *)
(* caller inside an error only after redact_secrets has been applied to    *)
(* it; no error carries the body as it was received.                       *)
(***************************************************************************)
C18_ErrorsCarryRedactedBody ==
    (report.from \notin {"none", "response"} /\ ~report.panic /\ report.text # <<>>)
    => report.text = RedactSecrets(report.body).text

(***************************************************************************)
(* C19: for a body holding an api_secret or access_token field with a      *)
(* value of any length, the text redact_secrets returns has the mask where *)
(* the field was and holds no character of the value.                      *)
(***************************************************************************)
C19_NoSecretSurvives ==
    (report.from = "core_call" /\ ~report.panic /\ report.status # 429
        /\ report.body \in SecretBodies)
    => /\ Find(Stars, report.text) # 0
       /\ \A i \in 1..Len(report.text) : report.text[i] # SecretChar

(***************************************************************************)
(* C20: handle_error maps a non-2xx status to one kind by the code alone:  *)
(* 429 RateLimitExceeded, 401 Unauthorized, 403 Forbidden, any other 4xx   *)
(* ClientError, any 5xx ServerError; the three special codes win over the  *)
(* 4xx range.                                                              *)
(***************************************************************************)
C20_Kind(st) ==
    CASE st = 429 -> "RateLimitExceeded"
      [] st = 401 -> "Unauthorized"
      [] st = 403 -> "Forbidden"
      [] st \in (400..499) \ {401, 403, 429} -> "ClientError"
      [] st \in 500..599 -> "ServerError"
      [] OTHER -> "Unexpected"

C20_ClassifiedByStatus ==
    (report.from = "core_call" /\ ~report.panic)
    => /\ report.kind = C20_Kind(report.status)
       /\ report.kind \in {"RateLimitExceeded", "Unauthorized", "Forbidden",
                            "ClientError", "ServerError", "Unexpected"}
       /\ report.kind = "Unexpected" <=> report.status < 400

\* a 429 came out as RateLimitExceeded, not as the generic client error
C20_Witness ==
    /\ report.from = "core_call"
    /\ report.status = 429
    /\ report.kind = "RateLimitExceeded"
    /\ ~report.panic

(***************************************************************************)
(* C21: the kind of an error does not depend on the endpoint: a non-2xx    *)
(* status is mapped the same way on every call of a client, no endpoint    *)
(* has a mapping of its own and none goes on without testing the status.   *)
(***************************************************************************)
C21_SameKindOnEveryEndpoint ==
    /\ (last.client = "core" /\ last.sends > 0 /\ last.status # 0
          /\ ~IsSuccess(last.status))
       => last.result = HandleError(last.status)
    /\ (last.client = "legacy" /\ last.sends > 0
          /\ (IsClientError(last.status) \/ IsServerError(last.status)))
       => last.result = "ApiError"

(***************************************************************************)
(* C22: under any interleaving of acquire() calls no caller is starved:    *)
(* none gives up while others are admitted, and a caller never waits more  *)
(* than capacity / R = PeriodMs longer than a caller that began to wait at *)
(* the same time.                                                          *)
(***************************************************************************)
C22_NoCallerLeftBehind ==
    \A c \in Callers :
       /\ Waiting(c) => lag[c] <= PeriodMs
       /\ pc[c] = "timeout" => lag[c] = -1

(***************************************************************************)
(* C23: every call returns in bounded time: besides the bounded wait for a *)
(* limiter credit, a send never stays outstanding longer than the          *)
(* per-request timeout, whichever client sends it.                         *)
(***************************************************************************)
C23_SendBounded ==
    \A c \in Callers : Sending(c) => elapsed[c] <= RequestTimeoutMs


\* C24: every login path exchanges the request token by an unauthenticated
\* POST to the session endpoint whose body is {api_key, request_token,
\* checksum}, the checksum being the hex SHA-256 of
\* api_key ++ request_token ++ api_secret.
C24_ChecksumIsDigest ==
    wire.path = "/session/token" =>
       /\ wire.method = "POST"
       /\ wire.auth = NoToken
       /\ wire.body = [api_key |-> ApiKey, request_token |-> wire.body.request_token,
                       checksum |-> Sha256Hex(ApiKey \o wire.body.request_token
                                                \o ApiSecret)]


\* C29: no order, modify or GTT request goes out with a quantity that is not
\* a positive number the user typed: a quantity <= 0 is rejected before the
\* cast to u32, so a negative one never wraps into a huge unsigned value.
C29_QuantitySentIsPositive ==
    LET Positive == {CastU32(q) : q \in 1..MaxQuantity} IN
    /\ wire.path \in {"/orders/regular", "/gtt/triggers"}
          => wire.body.quantity \in Positive
    /\ wire.path = "/orders/regular/{order_id}"
          => \A i \in 1..Len(wire.body.quantity) : wire.body.quantity[i] \in Positive


\* C25: RateLimitedClient re-sends after a transport failure whatever the
\* verb: a POST, PUT or DELETE of the older crate is given up only after
\* MaxRetries re-sends, one back-off wait before each, exactly as a GET, so
\* place_order and cancel_order may reach the server more than once.
C25_EveryVerbIsResent ==
    (last.client = "legacy" /\ last.verb \in {"POST", "PUT", "DELETE"} /\ last.sends > 0)
       => /\ last.sends = Len(last.waits) + 1
          /\ last.sends <= MaxRetries + 1
          /\ last.result = "Transport" => last.sends = MaxRetries + 1

C25_Witness ==
    /\ last.client = "legacy"
    /\ last.op = "place_order"
    /\ last.verb = "POST"
    /\ last.sends = MaxRetries + 1
    /\ last.result = "Ok"

\* C26: within one process, once logout has succeeded and until a new login,
\* every authenticated call fails with NotAuthenticated and sends nothing.
C26_NothingSentAfterLogout ==
    (/\ config = NoSession
     /\ disk = NoSession
     /\ last.client = "core"
     /\ last.op \in {ep.op : ep \in CoreEndpoints} \cup {"list_instruments"})
       => (last.sends = 0 /\ last.result = "NotAuthenticated")

\* C30: an authenticated request is sent only while auth::status reports
\* Authenticated: a token that is expired or logged out is never attached.
C30_SentOnlyWhileAuthenticated ==
    (/\ last.client = "core"
     /\ last.op \in {ep.op : ep \in CoreEndpoints} \cup {"list_instruments"}
     /\ last.sends > 0)
       => Status(config, day).kind = "Authenticated"


\* C27: a save or refresh that fails part-way leaves the previous cache file
\* as it was, so that load never returns a partial list and is_valid never
\* accepts a partially written file.
C27_FailedSaveKeepsFile ==
    [][fetched'.result = "SaveFailed" => files' = files]_vars

\* C28: redact_secrets never panics, wherever in the body the anchor lies,
\* so handle_error always returns an error value.
C28_RedactNeverPanics ==
    report.from = "core_call" => (~report.panic /\ report.kind # "panic")

====
